---- MODULE Spec2Model ----
(***************************************************************************)
(* Model of the restaurant dialog plugin (src/restaurants.go): the         *)
(* conversation state kept in m.State, the two handlers Run and FollowUp,  *)
(* the Yelp search procedure searchYelp and the business accessors.        *)
(*                                                                         *)
(* Strings are TLA+ strings; Go's string functions are computed character  *)
(* by character with Head, Tail, SubSeq and Len.  float64 values that the  *)
(* program only ever keeps integral (offset) are naturals; a rating is     *)
(* kept in tenths (45 stands for 4.5).  m.State["businesses"] is modelled  *)
(* as a sequence of business records.                                      *)
(***************************************************************************)
EXTENDS Integers, Sequences, FiniteSets, TLC

(***************************************************************************)
(* Bounds of the model.                                                    *)
(***************************************************************************)
MaxWords == 3      \* longest prior-response text, in words
MaxResults == 2    \* longest ranked list the provider holds for a query
MaxOffset == 2     \* pagination stops being offered beyond this offset
MaxObjects == 2    \* most object tokens in a structured input

(***************************************************************************)
(* Go string helpers.                                                      *)
(***************************************************************************)
Min(a, b) == IF a < b THEN a ELSE b

\* unicode.IsSpace for the characters that occur in the texts
IsSpace(c) == c \in {" ", "\t", "\n"}

Last(s) == SubSeq(s, Len(s), Len(s))

RECURSIVE FieldsFrom(_, _, _)
FieldsFrom(s, cur, acc) ==
  IF Len(s) = 0
    THEN IF Len(cur) = 0 THEN acc ELSE Append(acc, cur)
    ELSE IF IsSpace(Head(s))
           THEN FieldsFrom(Tail(s), "",
                           IF Len(cur) = 0 THEN acc ELSE Append(acc, cur))
           ELSE FieldsFrom(Tail(s), cur \o Head(s), acc)

\* strings.Fields
Fields(s) == FieldsFrom(s, "", <<>>)

RECURSIVE TrimRight(_, _)
\* strings.TrimRight
TrimRight(s, cutset) ==
  IF Len(s) > 0 /\ Last(s) \in cutset
    THEN TrimRight(SubSeq(s, 1, Len(s) - 1), cutset)
    ELSE s

\* the cutset ").,;?!:" of FollowUp
Punctuation == {")", ".", ",", ";", "?", "!", ":"}

UpperToLower ==
  [c \in {"A", "B", "C", "D", "E", "F", "G", "H", "I", "J", "K", "L", "M",
          "N", "O", "P", "Q", "R", "S", "T", "U", "V", "W", "X", "Y", "Z"} |->
     CASE c = "A" -> "a" [] c = "B" -> "b" [] c = "C" -> "c" [] c = "D" -> "d"
       [] c = "E" -> "e" [] c = "F" -> "f" [] c = "G" -> "g" [] c = "H" -> "h"
       [] c = "I" -> "i" [] c = "J" -> "j" [] c = "K" -> "k" [] c = "L" -> "l"
       [] c = "M" -> "m" [] c = "N" -> "n" [] c = "O" -> "o" [] c = "P" -> "p"
       [] c = "Q" -> "q" [] c = "R" -> "r" [] c = "S" -> "s" [] c = "T" -> "t"
       [] c = "U" -> "u" [] c = "V" -> "v" [] c = "W" -> "w" [] c = "X" -> "x"
       [] c = "Y" -> "y" [] c = "Z" -> "z"]

RECURSIVE ToLower(_)
\* strings.ToLower
ToLower(s) ==
  IF Len(s) = 0 THEN ""
  ELSE (IF Head(s) \in DOMAIN UpperToLower THEN UpperToLower[Head(s)]
        ELSE Head(s)) \o ToLower(Tail(s))

Digit(d) ==
  CASE d = 0 -> "0" [] d = 1 -> "1" [] d = 2 -> "2" [] d = 3 -> "3"
    [] d = 4 -> "4" [] d = 5 -> "5" [] d = 6 -> "6" [] d = 7 -> "7"
    [] d = 8 -> "8" [] d = 9 -> "9"

RECURSIVE Itoa(_)
Itoa(n) == IF n < 10 THEN Digit(n) ELSE Itoa(n \div 10) \o Digit(n % 10)

\* fmt.Sprintf("%.0f", x) of an integral, non-negative float64
Sprintf0f(n) == Itoa(n)

\* fmt.Sprintf("%.1f", x); the rating is held in tenths
Sprintf1f(tenths) == Itoa(tenths \div 10) \o "." \o Digit(tenths % 10)

DigitValue(c) ==
  CASE c = "0" -> 0 [] c = "1" -> 1 [] c = "2" -> 2 [] c = "3" -> 3
    [] c = "4" -> 4 [] c = "5" -> 5 [] c = "6" -> 6 [] c = "7" -> 7
    [] c = "8" -> 8 [] c = "9" -> 9

RECURSIVE Atoi(_)
\* the provider's reading of the decimal limit parameter
Atoi(s) ==
  IF Len(s) = 0 THEN 0
  ELSE 10 * Atoi(SubSeq(s, 1, Len(s) - 1)) + DigitValue(Last(s))

(***************************************************************************)
(* Data: businesses the provider knows, what the user says, what the       *)
(* location resolver and the provider answer.                              *)
(***************************************************************************)
Nil == "nil"           \* the nil error
NoFault == "none"      \* the handler has not panicked

\* yelpResp.Businesses elements, with the keys the accessors read
Torchys == [Name |-> "Torchy's", mobile_url |-> "m.yelp.com/torchys",
            display_phone |-> "(512) 555-0100", Rating |-> 45,
            display_address |-> <<"101 Main St", "Austin, TX">>]
Deli == [Name |-> "Deli", mobile_url |-> "m.yelp.com/deli",
         display_phone |-> "(512) 555-0199", Rating |-> 40,
         display_address |-> <<"5 Oak Ave">>]
Cart == [Name |-> "Cart", mobile_url |-> "m.yelp.com/cart",
         display_phone |-> "", Rating |-> 30,
         display_address |-> <<>>]

Business == {Torchys, Deli, Cart}

SeqsUpTo(S, n) == UNION {[1..k -> S] : k \in 0..n}

\* the sequences of at most n different elements of S
Distinct(S, n) ==
  {q \in SeqsUpTo(S, Min(n, Cardinality(S))) :
     \A i, j \in DOMAIN q : q[i] = q[j] => i = j}

\* what the provider can answer to one request: a failure of client.get or
\* the ranked list, of different businesses, it holds for the query
SearchOutcome ==
  {[kind |-> k, ranked |-> <<>>] : k \in {"transport", "status", "decode"}}
  \cup {[kind |-> "ok", ranked |-> r] : r \in Distinct(Business, MaxResults)}

Question == "Where are you?"

\* what knowledge.GetLocation returns: (loc, question, err); loc is <<>> for
\* the nil pointer and a one-element sequence for a pointer to a location
LocationResult ==
  {[loc |-> <<>>, question |-> "", err |-> "db error"]}
  \cup {[loc |-> l, question |-> Question, err |-> Nil] :
          l \in {<<>>, <<[Name |-> ""]>>, <<[Name |-> "Austin"]>>}}
  \cup {[loc |-> l, question |-> "", err |-> Nil] :
          l \in {<<[Name |-> ""]>>, <<[Name |-> "Austin"]>>}}

\* si.Objects of the structured input: different tokens in any order
Token == {"tacos", "bbq"}
Objects == Distinct(Token, MaxObjects)

\* m.Sentence as the host delivers it
Utterance == {"Boston", ""}

(***************************************************************************)
(* The message a handler works on: m.State, m.Sentence, *resp, and what    *)
(* the handler has done so far: the error returned, the provider calls,    *)
(* the panic, the number of location resolutions, the index and the list   *)
(* length of each accessor read and the number of words scanned.           *)
(***************************************************************************)
NewStateSecond ==
  [query |-> "", location |-> "", offset |-> 1, businesses |-> <<>>]

\* the m.State literal of Run
NewState == [query |-> "", location |-> "", offset |-> 0, businesses |-> <<>>]

Msg(state, sentence, resp) ==
  [State |-> state, Sentence |-> sentence, resp |-> resp, err |-> Nil,
   calls |-> <<>>, fault |-> NoFault, locs |-> 0, reads |-> <<>>,
   scanned |-> 0]

(***************************************************************************)
(* client.get and searchYelp.                                              *)
(***************************************************************************)
\* client.get: the error it returns and the decoded yelpResp.Businesses; the
\* provider hands out the first `limit` entries of its ranked list
get(form, out) ==
  CASE out.kind = "transport" -> [err |-> "transport error", Businesses |-> <<>>]
    [] out.kind = "status" -> [err |-> "yelp status 500", Businesses |-> <<>>]
    [] out.kind = "decode" -> [err |-> "decode error", Businesses |-> <<>>]
    [] out.kind = "ok" ->
         [err |-> Nil,
          Businesses |-> SubSeq(out.ranked, 1,
                                Min(Atoi(form.limit), Len(out.ranked)))]

FormOfOffset(state) ==
  [term |-> state.query, location |-> state.location,
   limit |-> Sprintf0f(state.offset)]

\* the request parameters of searchYelp (url.Values)
Form(state) ==
  [term |-> state.query, location |-> state.location,
   limit |-> Sprintf0f(state.offset + 1)]

\* the fixed responses
NotFoundNearby == "I couldn't find any places like that nearby."
ThatsAll == "That's all I could find."
NothingLikeThat == "I couldn't find anything like that"

ShortListStrict(n, offI) == n < offI

\* len(data.Businesses) <= offI
ShortList(n, offI) == n <= offI

FailureReported(m, err) ==
  [m EXCEPT !.Sentence = "I can't find that for you now. Let's try again later.",
            !.err = err]

\* if err != nil { return nil }: the provider's failure is dropped
FailureDropped(m, err) == m

RenderFirst(b, offI) ==
  LET addr == IF Len(b.display_address) > 0 THEN b.display_address[1] ELSE ""
  IN "Ok. How does this place look? " \o b.Name \o " at " \o addr

\* the response for the business at offI
Render(b, offI) ==
  LET addr == IF Len(b.display_address) > 0 THEN b.display_address[1] ELSE ""
  IN IF offI = 0
       THEN "Ok. How does this place look? " \o b.Name \o " at " \o addr
       ELSE "What about " \o b.Name \o " instead?"

\* the record of one provider call kept for the properties
Call(m, data, after, indexed) ==
  [form |-> Form(m.State), err |-> data.err, n |-> Len(data.Businesses),
   before |-> m.State, respBefore |-> m.resp,
   after |-> after.State, respAfter |-> after.resp, indexed |-> indexed,
   returned |-> data.Businesses]

searchYelp(m, out) ==
  LET offI == m.State.offset
      data == get(Form(m.State), out)
      stored == [m EXCEPT !.State.businesses = data.Businesses]
      n == Len(data.Businesses)
      done(after, indexed) ==
        [after EXCEPT !.calls = Append(@, Call(m, data, after, indexed))]
  IN IF data.err # Nil THEN done(FailureDropped(m, data.err), -1)
     ELSE IF n = 0
       THEN done([stored EXCEPT !.resp = NotFoundNearby], -1)
     ELSE IF ShortList(n, offI)
       THEN done([stored EXCEPT !.resp = ThatsAll], -1)
     ELSE IF offI + 1 > n
       THEN done([stored EXCEPT !.fault = "index out of range"], offI)
     ELSE done([stored EXCEPT !.resp = Render(data.Businesses[offI + 1], offI)],
               offI)

(***************************************************************************)
(* Run.                                                                    *)
(***************************************************************************)
RECURSIVE Join(_)
Join(ws) ==
  IF ws = <<>> THEN ""
  ELSE IF Len(ws) = 1 THEN ws[1]
  ELSE ws[1] \o " " \o Join(Tail(ws))

BuildQueryJoined(objects) == Join(objects)

RECURSIVE BuildQuery(_)
\* query += o + " " for each object
BuildQuery(objects) ==
  IF objects = <<>> THEN ""
  ELSE BuildQuery(SubSeq(objects, 1, Len(objects) - 1))
         \o objects[Len(objects)] \o " "

AskedNever(question) == FALSE

\* len(question) > 0
Asked(question) == Len(question) > 0

ErrorSwallowed(m, err) == m

\* if err != nil { return err }
ReturnErr(m, err) == [m EXCEPT !.err = err]

\* if loc != nil && len(loc.Name) > 0 { m.State["location"] = loc.Name }
StorePartial(m, loc) ==
  IF loc # <<>> /\ Len(loc[1].Name) > 0
    THEN [m EXCEPT !.State.location = loc[1].Name]
    ELSE m

\* m.State["location"] = loc.Name
StoreName(m, loc) ==
  IF loc = <<>> THEN [m EXCEPT !.fault = "nil pointer dereference"]
  ELSE [m EXCEPT !.State.location = loc[1].Name]

RetryQuestionInSentence(m, question) == [m EXCEPT !.Sentence = question]

\* the question of the first resolution attempt
FirstQuestion(m, question) == [m EXCEPT !.Sentence = question]

\* the question of the second resolution attempt
RetryQuestion(m, question) == [m EXCEPT !.resp = question]

\* lines 116-129: the second resolution attempt and what follows it
Retry(m, r2, out) ==
  IF r2.err # Nil THEN ReturnErr([m EXCEPT !.locs = 2], r2.err)
  ELSE IF Asked(r2.question)
    THEN RetryQuestion(StorePartial([m EXCEPT !.locs = 2], r2.loc), r2.question)
  ELSE LET named == StoreName([m EXCEPT !.locs = 2], r2.loc)
       IN IF named.fault # NoFault THEN named ELSE searchYelp(named, out)

Run(sentence, objects, r1, r2, out) ==
  LET reset == Msg([NewState EXCEPT !.query = BuildQuery(objects)],
                   sentence, "")
      m0 == [reset EXCEPT !.locs = 1]
  IN IF r1.err # Nil THEN ReturnErr(m0, r1.err)
     ELSE IF Asked(r1.question)
       THEN FirstQuestion(StorePartial(m0, r1.loc), r1.question)
     ELSE LET named == StoreName(m0, r1.loc)
          IN IF named.fault # NoFault THEN named
             ELSE IF Len(named.State.location) = 0 THEN Retry(named, r2, out)
             ELSE searchYelp(named, out)

(***************************************************************************)
(* The accessors of the current business.  An accessor yields the string   *)
(* it returns, or the panic of an index out of range.                      *)
(***************************************************************************)
Returned(str) == [fault |-> NoFault, s |-> str]
Panic(what) == [fault |-> what, s |-> ""]

\* businesses[offset] of the accessors
InRange(businesses, offset) == offset >= 0 /\ offset < Len(businesses)

getRating(m, offset) ==
  IF InRange(m.State.businesses, offset)
    THEN Returned(Sprintf1f(m.State.businesses[offset + 1].Rating))
    ELSE Panic("index out of range")

getURL(m, offset) ==
  IF InRange(m.State.businesses, offset)
    THEN Returned(m.State.businesses[offset + 1].mobile_url)
    ELSE Panic("index out of range")

getPhone(m, offset) ==
  IF InRange(m.State.businesses, offset)
    THEN Returned(m.State.businesses[offset + 1].display_phone)
    ELSE Panic("index out of range")

getAddress(m, offset) ==
  IF ~InRange(m.State.businesses, offset) THEN Panic("index out of range")
  ELSE LET dispAddr == m.State.businesses[offset + 1].display_address
       IN IF Len(dispAddr) > 1
            THEN Returned(dispAddr[1] \o " in " \o dispAddr[2])
          ELSE IF Len(dispAddr) > 0 THEN Returned(dispAddr[1])
          ELSE Panic("address index out of range")

(***************************************************************************)
(* FollowUp.                                                               *)
(***************************************************************************)
\* the keyword rows of the switch
RatingWords == {"rated", "rating", "review", "recommend", "recommended"}
PhoneWords == {"number", "phone"}
CallWords == {"call"}
InfoWords == {"information", "info"}
AddressWords == {"where", "location", "address", "direction", "directions",
                 "addr"}
PictureWords == {"pictures", "pic", "pics"}
MenuWords == {"menu", "have"}
MoreWords == {"not", "else", "no", "anything", "something"}
GoodWords == {"good", "great", "yes", "perfect"}
ThanksWords == {"thanks", "thank"}

AccessorWords ==
  RatingWords \cup PhoneWords \cup CallWords \cup InfoWords
    \cup AddressWords \cup PictureWords \cup MenuWords

Keywords == AccessorWords \cup MoreWords \cup GoodWords \cup ThanksWords

\* language.Positive() and language.Welcome(): one of the host's phrases
Positive == "Great!"
Welcome == "You're welcome."

\* w = strings.TrimRight(w, ").,;?!:"); strings.ToLower(w)
Normalize(w) == ToLower(TrimRight(w, Punctuation))

\* *resp = prefix + accessor value, or the accessor's panic
Answer(m, prefix, got, offI) ==
  LET read == [offset |-> offI, n |-> Len(m.State.businesses)]
  IN IF got.fault # NoFault
       THEN [m EXCEPT !.fault = got.fault, !.reads = Append(@, read)]
       ELSE [m EXCEPT !.resp = prefix \o got.s, !.reads = Append(@, read)]

AcknowledgeAndRestart(m, phrase) ==
  [m EXCEPT !.resp = phrase, !.State.offset = 0]

\* *resp = language.Positive() and *resp = language.Welcome()
Acknowledge(m, phrase) == [m EXCEPT !.resp = phrase]

\* m.State["offset"] = float64(offI + 1)
Advance(m, offI) == [m EXCEPT !.State.offset = offI + 1]

\* one pass through the switch for the word w
Switch(m, w, offI, out) ==
  LET k == Normalize(w)
  IN CASE k \in RatingWords ->
            LET got == getRating(m, offI)
            IN Answer(m, "It has a ",
                      [got EXCEPT !.s = @ \o " star review on Yelp"], offI)
       [] k \in PhoneWords -> Answer(m, "", getPhone(m, offI), offI)
       [] k \in CallWords ->
            Answer(m, "You can reach them here: ", getPhone(m, offI), offI)
       [] k \in InfoWords ->
            Answer(m, "Here's some more info: ", getURL(m, offI), offI)
       [] k \in AddressWords -> Answer(m, "It's at ", getAddress(m, offI), offI)
       [] k \in PictureWords ->
            Answer(m, "I found some pics here: ", getURL(m, offI), offI)
       [] k \in MenuWords ->
            Answer(m, "Yelp might have a menu... ", getURL(m, offI), offI)
       [] k \in MoreWords -> searchYelp(Advance(m, offI), out)
       [] k \in GoodWords -> Acknowledge(m, Positive)
       [] k \in ThanksWords -> Acknowledge(m, Welcome)
       [] OTHER -> m

AwaitingAndSearched(state) ==
  state.location = "" /\ Len(state.businesses) # 0

\* m.State["location"] == ""
AwaitingLocation(state) == state.location = ""

NeverEmpty(state) == FALSE

\* m.State["businesses"] != nil && len(m.State["businesses"]) == 0
NoBusinesses(state) == Len(state.businesses) = 0

\* if len(*resp) > 0 { return nil }
Responded(resp) == Len(resp) > 0

\* the provider's answer to the next call
NextOutcome(m, outs) == outs[Len(m.calls) + 1]

RECURSIVE Scan(_, _, _, _, _)
\* for _, w := range words, from the i-th word on
Scan(m, words, i, offI, outs) ==
  IF i > Len(words) THEN m
  ELSE LET after == Switch(m, words[i], offI, NextOutcome(m, outs))
           seen == [after EXCEPT !.scanned = i]
       IN IF seen.fault # NoFault \/ Responded(seen.resp) THEN seen
          ELSE Scan(seen, words, i + 1, offI, outs)

FollowUp(state, sentence, prior, outs) ==
  LET m == Msg(state, sentence, prior)
  IN IF AwaitingLocation(state)
       THEN searchYelp([m EXCEPT !.State.location = sentence],
                       NextOutcome(m, outs))
     ELSE IF NoBusinesses(state)
       THEN [m EXCEPT !.resp = NothingLikeThat]
     ELSE Scan(m, Fields(prior), 1, state.offset, outs)

(***************************************************************************)
(* The conversation.  The host calls Run for a new query and FollowUp for  *)
(* every later utterance, one call at a time; when a call returns it takes *)
(* the reply and the state and builds the next message from the state.     *)
(* m is the message of the current call; turn records which handler ran,   *)
(* on what inputs, and how the turn before it ended.                       *)
(***************************************************************************)
VARIABLES m, turn

vars == <<m, turn>>

\* prior-response texts: every keyword row once, alone, and the texts of up
\* to MaxWords words over an unmatched word, an accessor word whose answer
\* can be empty and a pagination word
RowWords == {"Rating:", "phone", "call", "info", "address", "pics", "menu",
             "Else!", "good", "thanks", "It's"}
CoreWords == {"It's", "phone", "Else!"}

Text ==
  {Join(ws) : ws \in SeqsUpTo(RowWords, 1) \cup SeqsUpTo(CoreWords, MaxWords)}

Failure == {o \in SearchOutcome : o.kind # "ok"}
Transport == [kind |-> "transport", ranked |-> <<>>]

\* the provider's answers to the calls of one handler: a handler calls again
\* only after a failed call, so its answers are failures f up to the k-th
\* call and any outcome at the k-th
OutcomeSeqs(need) ==
  {[i \in 1..(MaxWords + 1) |->
      IF i < k THEN f ELSE IF i = k THEN final ELSE Transport] :
     k \in 1..need, f \in Failure, final \in SearchOutcome}

AllFail == [i \in 1..(MaxWords + 1) |-> Transport]

Idle(prev) ==
  [op |-> "idle", pre |-> NewState, sentence |-> "", prior |-> "",
   objects |-> <<>>, locres |-> <<>>, prev |-> prev]

\* how a turn ended: with a clarifying question, with a successful search
\* that found nothing, or otherwise
Ended(msg, t) ==
  IF t.op = "Run" /\ Asked(t.locres[Len(t.locres)].question) THEN "asked"
  ELSE IF msg.calls # <<>> /\ msg.calls[Len(msg.calls)].err = Nil
          /\ msg.calls[Len(msg.calls)].n = 0 THEN "zero"
  ELSE "other"

Init ==
  /\ m = Msg(NewState, "", "")
  /\ turn = Idle("start")

RunWith(sentence, objects, r1, r2) ==
  LET probe == Run(sentence, objects, r1, r2, Transport)
  IN \E out \in (IF probe.calls = <<>> THEN {Transport} ELSE SearchOutcome) :
       LET after == Run(sentence, objects, r1, r2, out)
       IN /\ m' = after
          /\ turn' = [op |-> "Run", pre |-> m.State, sentence |-> sentence,
                      prior |-> "",
                      objects |-> objects,
                      locres |-> IF after.locs = 2 THEN <<r1, r2>> ELSE <<r1>>,
                      prev |-> turn.prev]

RunTurn ==
  /\ turn.op = "idle"
  /\ \E sentence \in Utterance, objects \in Objects, r1 \in LocationResult :
       IF Run(sentence, objects, r1, r1, Transport).locs = 2
         THEN \E r2 \in LocationResult : RunWith(sentence, objects, r1, r2)
         ELSE RunWith(sentence, objects, r1, r1)

FollowUpTurn ==
  /\ turn.op = "idle"
  /\ turn.prev # "start"
  /\ \E sentence \in Utterance, prior \in Text :
       LET need == Len(FollowUp(m.State, sentence, prior, AllFail).calls)
       IN \E outs \in (IF need = 0 THEN {AllFail} ELSE OutcomeSeqs(need)) :
            LET after == FollowUp(m.State, sentence, prior, outs)
            IN /\ after.State.offset <= MaxOffset
               /\ m' = after
               /\ turn' = [op |-> "FollowUp", pre |-> m.State,
                           sentence |-> sentence, prior |-> prior, objects |-> <<>>,
                           locres |-> <<>>, prev |-> turn.prev]

\* the call returns: the host takes *resp and m.State; a panic ends the
\* plugin process instead
Reply ==
  /\ turn.op \in {"Run", "FollowUp"}
  /\ m.fault = NoFault
  /\ m' = Msg(m.State, "", "")
  /\ turn' = Idle(Ended(m, turn))

Next == RunTurn \/ FollowUpTurn \/ Reply

Spec == Init /\ [][Next]_vars

(***************************************************************************)
(* Properties.                                                             *)
(***************************************************************************)
\* the turn is a FollowUp that went to the keyword classifier
ClassifierPath ==
  /\ turn.op = "FollowUp"
  /\ turn.pre.location # ""
  /\ turn.pre.businesses # <<>>

\* the turn is a Run whose last location resolution asked a question
RunAsked ==
  /\ turn.op = "Run"
  /\ turn.locres[Len(turn.locres)].err = Nil
  /\ Len(turn.locres[Len(turn.locres)].question) > 0

\* the index of the first word whose normal form is a keyword, 0 if none
FirstMatch(words) ==
  IF \E i \in DOMAIN words : Normalize(words[i]) \in Keywords
    THEN CHOOSE i \in DOMAIN words :
           /\ Normalize(words[i]) \in Keywords
           /\ \A j \in 1..(i - 1) : Normalize(words[j]) \notin Keywords
    ELSE 0

\* the handler did what the switch binds to the keyword k
Performed(k) ==
  CASE k \in AccessorWords -> m.reads # <<>>
    [] k \in MoreWords -> m.calls # <<>>
    [] k \in GoodWords -> m.resp = Positive
    [] k \in ThanksWords -> m.resp = Welcome
    [] OTHER -> FALSE

\* C1: whenever a FollowUp classifier action reads a field of the current
\* business, the stored offset is a valid index into the stored businesses
\* list: 0 <= offset < length of businesses at every accessor read.
C1_OffsetValidAtRead ==
  \A i \in DOMAIN m.reads :
    m.reads[i].offset >= 0 /\ m.reads[i].offset < m.reads[i].n

\* C2: on the classifier path FollowUp performs the action bound to the
\* first word of the prior-response text whose normal form (trailing
\* punctuation stripped, lower-cased) is a keyword, also when unmatched
\* words come before it.
C2_FirstMatchFires ==
  LET words == Fields(turn.prior)
      first == FirstMatch(words)
  IN ClassifierPath /\ first > 0 =>
       m.scanned >= first /\ Performed(Normalize(words[first]))

\* C3: if location resolution returns a clarifying question, on the first
\* attempt or on the retry, Run issues no search request in that turn and
\* businesses stays the empty list of the reset.
C3_QuestionNoSearch ==
  RunAsked => m.calls = <<>> /\ m.State.businesses = <<>>

C3_Witness ==
  /\ RunAsked
  /\ Len(turn.locres) = 2
  /\ turn.pre.businesses # <<>>
  /\ m.calls = <<>>

\* C4: whenever location resolution in Run returns a clarifying question,
\* from the first attempt or from the retry, the response string of the
\* turn equals the question text.
C4_QuestionIsResponse ==
  RunAsked => m.resp = turn.locres[Len(turn.locres)].question

\* the provider calls of the turn
Calls == {m.calls[i] : i \in DOMAIN m.calls}

\* C5 as stated: for any successful search whose result list has length n
\* and any stored offset >= n, Search responds with the "that's all I could
\* find" message and does not index into the list.
C5_ShortListThatsAll ==
  \A c \in Calls :
    c.err = Nil /\ c.before.offset >= c.n =>
      c.respAfter = ThatsAll /\ c.indexed = -1

\* C5 amended: for any successful search whose result list has length n and
\* any stored offset >= n, Search does not index into the list and responds
\* with the "that's all I could find" message when n >= 1 and with the
\* "couldn't find any places like that nearby" message when n = 0.
C5_ShortListNoIndex ==
  \A c \in Calls :
    c.err = Nil /\ c.before.offset >= c.n =>
      /\ c.indexed = -1
      /\ c.respAfter = IF c.n = 0 THEN NotFoundNearby ELSE ThatsAll

C5_Witness ==
  \E c \in Calls :
    /\ c.err = Nil
    /\ c.n >= 1
    /\ c.before.offset = c.n
    /\ c.respAfter = ThatsAll

\* C6: every request Search issues carries limit = (stored offset at the
\* time of the call) + 1, terms equal to the stored query and location equal
\* to the stored location.
C6_RequestFromState ==
  \A c \in Calls :
    /\ Atoi(c.form.limit) = c.before.offset + 1
    /\ c.form.term = c.before.query
    /\ c.form.location = c.before.location

C6_Witness ==
  \E c \in Calls :
    /\ c.before.offset = 1
    /\ c.form.limit = "2"
    /\ c.form.term = "tacos bbq "
    /\ c.form.location = "Boston"

\* C7: a FollowUp call that fires the pagination trigger with stored offset k
\* sets the stored offset to exactly k+1 and re-invokes Search exactly once,
\* with limit = k+2; the offset never advances by more than 1 in one call.
C7_OnePagePerCall ==
  ClassifierPath /\ m.calls # <<>> =>
    /\ m.State.offset = turn.pre.offset + 1
    /\ Len(m.calls) = 1
    /\ Atoi(m.calls[1].form.limit) = turn.pre.offset + 2

\* C8: a successful search that returns zero businesses stores the empty
\* sequence and responds "I couldn't find any places like that nearby."; a
\* following FollowUp call with a non-empty location returns "I couldn't
\* find anything like that", invokes no search and changes no state.
C8_NothingFound ==
  /\ \A c \in Calls :
       c.err = Nil /\ c.n = 0 =>
         c.after.businesses = <<>> /\ c.respAfter = NotFoundNearby
  /\ turn.op = "FollowUp" /\ turn.prev = "zero" /\ turn.pre.location # "" =>
       /\ m.resp = NothingLikeThat
       /\ m.calls = <<>>
       /\ m.State = turn.pre
       /\ m.err = Nil

C8_Witness ==
  /\ turn.op = "FollowUp"
  /\ turn.prev = "zero"
  /\ turn.pre.location # ""
  /\ turn.pre.businesses = <<>>
  /\ turn.prior # ""
  /\ m.resp = NothingLikeThat

\* C9: when the provider call fails (transport error, non-200 status or
\* decode failure), Search returns no error, writes no response text and
\* leaves query, location, offset and businesses as they were when Search
\* was entered; a handler that searched returns no error.
C9_FailureIsNoOp ==
  /\ \A c \in Calls :
       c.err # Nil => c.after = c.before /\ c.respAfter = c.respBefore
  /\ m.calls # <<>> => m.err = Nil

C9_Witness ==
  /\ turn.op = "FollowUp"
  /\ \E c \in Calls : c.err = "decode error" /\ c.before.businesses # <<>>
  /\ \E c \in Calls : c.err = "yelp status 500"

\* C10: if the location collaborator fails, on the first attempt or on the
\* retry, Run returns that failure, writes no response text and invokes no
\* search.
C10_LocationFailureAborts ==
  turn.op = "Run" /\ turn.locres[Len(turn.locres)].err # Nil =>
    /\ m.err = turn.locres[Len(turn.locres)].err
    /\ m.resp = ""
    /\ m.calls = <<>>

C10_Witness ==
  /\ turn.op = "Run"
  /\ Len(turn.locres) = 2
  /\ turn.locres[2].err # Nil
  /\ m.err = "db error"

RECURSIVE TotalLen(_)
\* the characters of the tokens, one more for each token
TotalLen(tokens) ==
  IF tokens = <<>> THEN 0
  ELSE Len(Head(tokens)) + 1 + TotalLen(Tail(tokens))

\* C11: the query stored by Run is the object tokens in their original
\* order, each followed by one space (the empty query for no tokens),
\* whatever query an earlier turn stored.
C11_QueryIsTokens ==
  turn.op = "Run" =>
    /\ Fields(m.State.query) = turn.objects
    /\ Len(m.State.query) = TotalLen(turn.objects)
    /\ turn.objects # <<>> => Last(m.State.query) = " "

C11_Witness ==
  /\ turn.op = "Run"
  /\ turn.objects = <<"bbq", "tacos">>
  /\ turn.pre.query = "tacos bbq "
  /\ m.State.query = "bbq tacos "

\* C12: Run started from any prior conversation state resets it before
\* resolving the location: its first search requests limit 1 on an empty
\* businesses list, and after Run returns the offset is 0, businesses is
\* empty or the list this turn's search returned, and location is empty or a
\* name this turn's resolver returned.
C12_RunResets ==
  turn.op = "Run" =>
    /\ m.State.offset = 0
    /\ m.calls # <<>> =>
         /\ m.calls[1].form.limit = "1"
         /\ m.calls[1].before.businesses = <<>>
         /\ m.calls[1].before.offset = 0
    /\ m.State.businesses # <<>> =>
         /\ m.calls # <<>>
         /\ m.calls[Len(m.calls)].err = Nil
         /\ m.calls[Len(m.calls)].n = Len(m.State.businesses)
    /\ \/ m.State.location = ""
       \/ \E i \in DOMAIN turn.locres :
            /\ turn.locres[i].loc # <<>>
            /\ turn.locres[i].loc[1].Name = m.State.location

C12_Witness ==
  /\ turn.op = "Run"
  /\ turn.pre.offset = 2
  /\ turn.pre.businesses # <<>>
  /\ turn.pre.location = "Boston"
  /\ m.calls # <<>>
  /\ m.State.location = "Austin"

\* C13: FollowUp called with an empty stored location stores the whole
\* utterance as location and invokes Search exactly once, with that
\* location; the empty-businesses short-circuit and the keyword classifier
\* are not evaluated in that call.
C13_LocationAnswer ==
  turn.op = "FollowUp" /\ turn.pre.location = "" =>
    /\ m.State.location = turn.sentence
    /\ Len(m.calls) = 1
    /\ m.calls[1].form.location = turn.sentence
    /\ m.resp # NothingLikeThat
    /\ m.reads = <<>>
    /\ m.scanned = 0

C13_Witness ==
  /\ turn.op = "FollowUp"
  /\ turn.pre.location = ""
  /\ turn.pre.businesses = <<>>
  /\ turn.prior = "phone"
  /\ turn.sentence = "Boston"
  /\ m.State.location = "Boston"
  /\ Len(m.calls) = 1

\* C14: on a successful search with a business at the stored offset the
\* response is "Ok. How does this place look? {name} at {first address
\* line}" exactly when offset = 0 and "What about {name} instead?" for every
\* offset > 0, with the name of the business at index offset of the returned
\* list and the empty string for a business without address lines;
\* businesses is stored as the returned list.
C14_Rendering ==
  \A c \in Calls :
    c.err = Nil /\ c.n > c.before.offset =>
      LET b == c.returned[c.before.offset + 1]
          line == IF b.display_address = <<>> THEN ""
                  ELSE Head(b.display_address)
      IN /\ c.indexed = c.before.offset
         /\ c.after.businesses = c.returned
         /\ c.before.offset = 0 =>
              c.respAfter =
                "Ok. How does this place look? " \o b.Name \o " at " \o line
         /\ c.before.offset > 0 =>
              c.respAfter = "What about " \o b.Name \o " instead?"

C14_Witness ==
  \E c \in Calls :
    /\ c.err = Nil
    /\ c.before.offset = 1
    /\ c.returned = <<Torchys, Cart>>
    /\ c.respAfter = "What about Cart instead?"
    /\ m.State.businesses = <<Torchys, Cart>>

\* the first resolution of the turn succeeded with an empty name
FirstNameEmpty ==
  /\ turn.locres[1].err = Nil
  /\ turn.locres[1].question = ""
  /\ turn.locres[1].loc # <<>>
  /\ turn.locres[1].loc[1].Name = ""

\* C15: Run resolves the location a second time exactly when the first
\* resolution succeeds with an empty name, and never a third time; when the
\* retry yields a clarifying question Run responds with the question, stores
\* a non-empty partial name as location and returns without searching.
C15_RetryOnce ==
  turn.op = "Run" =>
    /\ Len(turn.locres) = m.locs
    /\ m.locs = IF FirstNameEmpty THEN 2 ELSE 1
    /\ m.locs = 2 /\ turn.locres[2].err = Nil
         /\ turn.locres[2].question # "" =>
           /\ m.resp = turn.locres[2].question
           /\ m.calls = <<>>
           /\ m.State.location =
                IF turn.locres[2].loc = <<>> THEN ""
                ELSE turn.locres[2].loc[1].Name

C15_Witness ==
  /\ turn.op = "Run"
  /\ m.locs = 2
  /\ turn.locres[2].question = Question
  /\ turn.locres[2].loc = <<[Name |-> "Austin"]>>
  /\ m.resp = Question
  /\ m.State.location = "Austin"

\* C16: when the Search re-invoked by a pagination trigger in FollowUp fails
\* at the provider, the turn causes no state change: the stored offset and
\* businesses after the FollowUp call equal their values before it.
C16_FailedPageNoChange ==
  ClassifierPath /\ m.calls # <<>> /\ (\A c \in Calls : c.err # Nil) =>
    /\ m.State.offset = turn.pre.offset
    /\ m.State.businesses = turn.pre.businesses

\* C17: a FollowUp call entered with a non-empty location never changes
\* query or location, changes offset only when a pagination trigger fires
\* its Search and businesses only through a successful Search; a call that
\* fires no pagination trigger (accessor actions, acknowledgment, thanks,
\* unmatched words) leaves query, location, offset and businesses unchanged.
C17_FollowUpFrame ==
  turn.op = "FollowUp" /\ turn.pre.location # "" =>
    /\ m.State.query = turn.pre.query
    /\ m.State.location = turn.pre.location
    /\ m.calls = <<>> => m.State = turn.pre
    /\ m.State.businesses # turn.pre.businesses =>
         \E c \in Calls : c.err = Nil /\ c.after.businesses = m.State.businesses

C17_Witness ==
  /\ turn.op = "FollowUp"
  /\ turn.pre.location # ""
  /\ turn.pre.offset = 1
  /\ Len(turn.pre.businesses) = 2
  /\ turn.prior = "thanks"
  /\ m.resp = Welcome
  /\ m.State = turn.pre

\* C18: Run invokes Search only with a non-empty stored location: the
\* location of every search request of a Run is a non-empty resolved name.
C18_RunSearchesWithLocation ==
  turn.op = "Run" => \A c \in Calls : c.form.location # ""

\* C19: after a Run turn that ended with a clarifying location question,
\* the next FollowUp turn uses the user's utterance as the location answer
\* and invokes Search, also when the resolver returned a partial location
\* name together with the question.
C19_AnswerIsUsed ==
  turn.op = "FollowUp" /\ turn.prev = "asked" =>
    /\ m.State.location = turn.sentence
    /\ m.calls # <<>>
    /\ m.resp # NothingLikeThat

\* the word at which the scan of the prior response ended
LastScanned == Fields(turn.prior)[m.scanned]

\* C20: the address action of FollowUp never indexes an address-line list
\* out of range: for a current business with two or more address lines it
\* answers "It's at {line1} in {line2}", with exactly one line "It's at
\* {line1}", and with no address line it still completes without fault.
C20_AddressNoFault ==
  /\ ClassifierPath
  /\ m.scanned > 0
  /\ Normalize(LastScanned) \in AddressWords
  /\ InRange(m.State.businesses, turn.pre.offset)
  => LET lines == m.State.businesses[turn.pre.offset + 1].display_address
     IN /\ m.fault = NoFault
        /\ Len(lines) >= 2 =>
             m.resp = "It's at " \o lines[1] \o " in " \o lines[2]
        /\ Len(lines) = 1 => m.resp = "It's at " \o lines[1]

====
